---- MODULE Spec2Model ----
(***************************************************************************)
(* Model of the explicit finite-difference temperature solver:             *)
(*   Mesh / Node              (src/mesh.py, src/main.py)                   *)
(*   get_temp, calc_time_iteration, the __main__ driver (src/main.py)      *)
(*                                                                         *)
(* A temperature is a fixed-point number, an integer counting thousandths  *)
(* of a degree, and tau is a fraction <<numerator, denominator>>; get_temp *)
(* rounds its result down to a thousandth, which stands for the rounding   *)
(* of binary floating point.                                               *)
(* Python's None is the record NoneT (for an optional temperature) or      *)
(* NoneId (for an optional node id).  A Python call that can raise is an   *)
(* operator returning a record with an exc field, "none" when it returns.  *)
(***************************************************************************)
EXTENDS Integers, Sequences, FiniteSets, TLC

VARIABLES mesh_size, nodes, phase, err, steps, call, stencil

vars == <<mesh_size, nodes, phase, err, steps, call, stencil>>

(* ------------------------------ bounds --------------------------------- *)

MaxMeshSize == 3
MaxBCs == 2
MaxStepBCs == 1
MaxSteps == 2

MeshSizes == -1..MaxMeshSize

\* the coordinates a caller passes to a mesh of size ms: those of the grid and
\* one step off it on either side
Coords(ms) == -1..ms

(* ------------------------------ numbers -------------------------------- *)

\* temperatures in thousandths of a degree; tau as <<numerator, denominator>>
Taus == {<<1, 5>>, <<1, 4>>}
InitialTemps == {0, 20000}
BCTemps == {100000, 50000}

(* ------------------------------ optionals ------------------------------ *)

NoneT == [some |-> FALSE, v |-> 0]
SomeT(t) == [some |-> TRUE, v |-> t]
NoneId == [some |-> FALSE, v |-> 0]
SomeId(i) == [some |-> TRUE, v |-> i]

(* -------------------------------- Node --------------------------------- *)

Node(id, x, y, is_boundary_node) ==
    [id |-> id, x |-> x, y |-> y, is_fixed_temp |-> FALSE,
     temp |-> <<>>, is_boundary_node |-> is_boundary_node]

(* -------------------------------- Mesh --------------------------------- *)

\* range(n) has n elements for n > 0 and none otherwise
RangeLen(n) == IF n > 0 THEN n ELSE 0

gen_mesh(ms) ==
    [i \in 1..(RangeLen(ms) * RangeLen(ms)) |->
        LET id == i - 1
            x == id \div ms
            y == id % ms
        IN  Node(id, x, y, (x \in {0, ms}) \/ (y \in {0, ms}))]

get_node_id(ms, x, y) ==
    LET id == x * ms + y
    IN  IF id < 0 THEN NoneId ELSE SomeId(id)

\* Python list subscript lst[i]: TypeError for None, IndexError outside
\* -len..len-1, negative subscripts count from the end.
ListIndex(lst, i) ==
    IF ~i.some THEN [exc |-> "TypeError", pos |-> 0]
    ELSE IF i.v >= Len(lst) \/ i.v < -Len(lst) THEN [exc |-> "IndexError", pos |-> 0]
    ELSE IF i.v < 0 THEN [exc |-> "none", pos |-> Len(lst) + i.v + 1]
    ELSE [exc |-> "none", pos |-> i.v + 1]

\* the body of the try block: self.nodes[self.get_node_id(x, y)].temp[-1]
LastTempTry(ms, ns, x, y) ==
    LET n == ListIndex(ns, get_node_id(ms, x, y))
    IN  IF n.exc # "none" THEN [exc |-> n.exc, val |-> NoneT, src |-> -1]
        ELSE IF Len(ns[n.pos].temp) = 0
             THEN [exc |-> "IndexError", val |-> NoneT, src |-> -1]
             ELSE [exc |-> "none",
                   val |-> SomeT(ns[n.pos].temp[Len(ns[n.pos].temp)]),
                   src |-> ns[n.pos].id]

\* exceptions the except clause of get_node_temp_or_none turns into None
Caught == {"IndexError", "TypeError"}

get_node_temp_or_none(ms, ns, x, y) ==
    LET r == LastTempTry(ms, ns, x, y)
    IN  IF r.exc = "none" THEN r
        ELSE IF r.exc \in Caught THEN [exc |-> "none", val |-> NoneT, src |-> -1]
        ELSE r

\* a boundary condition that leaves an already fixed node alone
SetTemp0KeepFirst(n, t) ==
    IF n.is_fixed_temp THEN n
    ELSE [n EXCEPT !.temp = [@ EXCEPT ![1] = t], !.is_fixed_temp = TRUE]

\* self.nodes[node_id].temp[0] = t; self.nodes[node_id].is_fixed_temp = True
SetTemp0(n, t) == [n EXCEPT !.temp = [@ EXCEPT ![1] = t], !.is_fixed_temp = TRUE]

\* one iteration of the boundary-condition loop of init_values
ApplyBC(ms, ns, bc) ==
    LET n == ListIndex(ns, get_node_id(ms, bc[1], bc[2]))
    IN  IF n.exc # "none" THEN [exc |-> n.exc, nodes |-> ns]
        ELSE IF Len(ns[n.pos].temp) = 0 THEN [exc |-> "IndexError", nodes |-> ns]
        ELSE [exc |-> "none",
              nodes |-> [ns EXCEPT ![n.pos] = SetTemp0(ns[n.pos], bc[3])]]

RECURSIVE ApplyBCs(_, _, _, _)
ApplyBCs(ms, ns, bcs, i) ==
    IF i > Len(bcs) THEN [exc |-> "none", nodes |-> ns]
    ELSE LET r == ApplyBC(ms, ns, bcs[i])
         IN  IF r.exc # "none" THEN r ELSE ApplyBCs(ms, r.nodes, bcs, i + 1)

init_values(ms, ns, boundary_conditions, initial_temp) ==
    LET all == [i \in 1..Len(ns) |->
                   [ns[i] EXCEPT !.temp = Append(@, initial_temp)]]
    IN  ApplyBCs(ms, all, boundary_conditions, 1)

(* ------------------------------ Stepper -------------------------------- *)

get_temp(tau, t_node_i, t_left, t_right, t_top, t_bottom) ==
    (tau[1] * (t_left + t_top + t_right + t_bottom)
        + (tau[2] - 4 * tau[1]) * t_node_i) \div tau[2]

\* `if a is None: a = b`, on the value and on the id of the node it came from
OrElse(a, b) == IF a.val.some THEN a ELSE b

\* a store that leaves a fixed node without a new entry
StoreNextSkipFixed(ns, pos, t_next) ==
    IF ns[pos].is_fixed_temp THEN ns
    ELSE [ns EXCEPT ![pos].temp = Append(@, t_next)]

\* a store that writes over the node's latest entry
StoreNextInPlace(ns, pos, t_next) ==
    [ns EXCEPT ![pos].temp = [@ EXCEPT ![Len(@)] = t_next]]

\* mesh.nodes[...].temp.append(t_next)
StoreNext(ns, pos, t_next) == [ns EXCEPT ![pos].temp = Append(@, t_next)]

\* the one element of a singleton set: Only({e(v) : v \in {d}}) is e with d
\* evaluated once and named v
Only(S) == CHOOSE e \in S : TRUE

\* lines 98 to 111 of calc_time_iteration for one (x, y), given what the four
\* lookups of lines 93 to 96 returned
Stencil(ms, ns, tau, x, y, l0, r0, t0, b0) ==
    LET t_left == OrElse(l0, r0)
        t_right == OrElse(r0, t_left)
        t_top == OrElse(t0, b0)
        t_bottom == OrElse(b0, t_top)
        src == [left |-> t_left.src, right |-> t_right.src,
                top |-> t_top.src, bottom |-> t_bottom.src]
        n == ListIndex(ns, get_node_id(ms, x, y))
        lookups == {l0.exc, r0.exc, t0.exc, b0.exc} \ {"none"}
    IN  IF lookups # {} THEN [exc |-> Only(lookups), nodes |-> ns, src |-> src]
        ELSE IF n.exc # "none" THEN [exc |-> n.exc, nodes |-> ns, src |-> src]
        ELSE IF Len(ns[n.pos].temp) = 0 THEN [exc |-> "IndexError", nodes |-> ns, src |-> src]
        ELSE IF ~(t_left.val.some /\ t_right.val.some /\ t_top.val.some /\ t_bottom.val.some)
             THEN [exc |-> "TypeError", nodes |-> ns, src |-> src]
        ELSE LET t_node_i == ns[n.pos].temp[Len(ns[n.pos].temp)]
                 t_next == get_temp(tau, t_node_i, t_left.val.v, t_right.val.v,
                                    t_top.val.v, t_bottom.val.v)
             IN  [exc |-> "none",
                  nodes |-> StoreNext(ns, n.pos, t_next),
                  src |-> src]

\* the body of the double loop of calc_time_iteration for one (x, y)
NodeStep(ms, ns, tau, x, y) ==
    Only({Stencil(ms, ns, tau, x, y, l0, r0, t0, b0) :
            l0 \in {get_node_temp_or_none(ms, ns, x - 1, y)},
            r0 \in {get_node_temp_or_none(ms, ns, x + 1, y)},
            t0 \in {get_node_temp_or_none(ms, ns, x, y + 1)},
            b0 \in {get_node_temp_or_none(ms, ns, x, y - 1)}})

\* the sweep over x in range(mesh_size), y in range(mesh_size); k counts the
\* (x, y) pairs already visited, st holds the operand sources of those pairs,
\* r is what the loop body returned for pair k
RECURSIVE Sweep(_, _, _, _, _)
SweepOn(ms, r, tau, k, st) ==
    IF r.exc # "none"
    THEN [exc |-> r.exc, nodes |-> r.nodes, stencil |-> st]
    ELSE Sweep(ms, r.nodes, tau, k + 1, Append(st, r.src))

Sweep(ms, ns, tau, k, st) ==
    IF k >= RangeLen(ms) * RangeLen(ms) THEN [exc |-> "none", nodes |-> ns, stencil |-> st]
    ELSE Only({SweepOn(ms, r, tau, k, st) :
                 r \in {NodeStep(ms, ns, tau, k \div ms, k % ms)}})

calc_time_iteration(ms, ns, tau) == Sweep(ms, ns, tau, 0, <<>>)

(* ------------------------------- driver -------------------------------- *)

BCTriples(ms) == Coords(ms) \X Coords(ms) \X BCTemps
BCListsUpTo(ms, n) == UNION {[1..k -> BCTriples(ms)] : k \in 0..n}

NoCall == [op |-> "none", mesh_size |-> 0, bcs |-> <<>>, initial_temp |-> 0,
           tau |-> <<0, 1>>, x |-> 0, y |-> 0, result |-> NoneT]

Init ==
    /\ mesh_size = 0
    /\ nodes = <<>>
    /\ phase = "new"
    /\ err = "none"
    /\ steps = 0
    /\ call = NoCall
    /\ stencil = <<>>

\* mesh = Mesh(mesh_size)
Construct(ms) ==
    /\ phase = "new"
    /\ mesh_size' = ms
    /\ nodes' = gen_mesh(ms)
    /\ phase' = "constructed"
    /\ call' = [NoCall EXCEPT !.op = "Mesh", !.mesh_size = ms]
    /\ UNCHANGED <<err, steps, stencil>>

\* mesh.init_values(bcs, initial_temp), bcs of at most n triples
Initialize(n) ==
    /\ phase = "constructed"
    /\ \E bcs \in BCListsUpTo(mesh_size, n), initial_temp \in InitialTemps :
         LET r == init_values(mesh_size, nodes, bcs, initial_temp)
         IN  /\ nodes' = r.nodes
             /\ err' = r.exc
             /\ phase' = IF r.exc = "none" THEN "initialized" ELSE "crashed"
             /\ call' = [NoCall EXCEPT !.op = "init_values", !.bcs = bcs,
                                       !.initial_temp = initial_temp]
    /\ UNCHANGED <<mesh_size, steps, stencil>>

\* calc_time_iteration(mesh, tau), one pass of the driver's loop
Advance(tau) ==
    /\ phase = "initialized"
    /\ steps < MaxSteps
    /\ \E r \in {calc_time_iteration(mesh_size, nodes, tau)} :
           /\ nodes' = r.nodes
           /\ err' = r.exc
           /\ stencil' = r.stencil
           /\ steps' = IF r.exc = "none" THEN steps + 1 ELSE steps
           /\ phase' = IF r.exc = "none" THEN "initialized" ELSE "crashed"
    /\ call' = [NoCall EXCEPT !.op = "calc_time_iteration", !.tau = tau]
    /\ UNCHANGED mesh_size

\* mesh.get_node_temp_or_none(x, y), by a reader of the mesh
Lookup(x, y) ==
    /\ phase \in {"constructed", "initialized"}
    /\ LET r == get_node_temp_or_none(mesh_size, nodes, x, y)
       IN  /\ err' = r.exc
           /\ phase' = IF r.exc = "none" THEN phase ELSE "crashed"
           /\ call' = [NoCall EXCEPT !.op = "get_node_temp_or_none",
                                     !.x = x, !.y = y, !.result = r.val]
    /\ UNCHANGED <<mesh_size, nodes, steps, stencil>>

\* the driver: construct, initialize, step
Next ==
    \/ \E ms \in MeshSizes : Construct(ms)
    \/ Initialize(MaxStepBCs)
    \/ \E tau \in Taus : Advance(tau)

Spec == Init /\ [][Next]_vars

\* the driver and a reader of the mesh
NextLookup ==
    \/ Next
    \/ \E x \in Coords(mesh_size), y \in Coords(mesh_size) : Lookup(x, y)

SpecLookup == Init /\ [][NextLookup]_vars

\* construction and initialization alone, over longer boundary-condition lists
NextInit ==
    \/ \E ms \in MeshSizes : Construct(ms)
    \/ Initialize(MaxBCs)

SpecInit == Init /\ [][NextInit]_vars

(* ------------------------------ properties ----------------------------- *)

Last(seq) == seq[Len(seq)]
InGrid(x, y) == x \in 0..(mesh_size - 1) /\ y \in 0..(mesh_size - 1)
IdOf(x, y) == x * mesh_size + y
Stepped == call.op = "calc_time_iteration" /\ err = "none"

\* C1: a call of calc_time_iteration on a mesh of size >= 2 appends to every
\* node the value a sweep over the frozen pre-call mesh computes for it: no
\* operand is a value appended earlier in the same call.
C1_JacobiSweep ==
    [][(call'.op = "calc_time_iteration" /\ err' = "none" /\ mesh_size >= 2
            /\ steps' = steps + 1) =>
        \A i \in 1..Len(nodes) :
            Last(nodes'[i].temp) =
                Last(NodeStep(mesh_size, nodes, call'.tau,
                              nodes[i].x, nodes[i].y).nodes[i].temp)]_vars

\* C2: every history entry of a node marked is_fixed_temp equals its entry at
\* index 0, after any number of calc_time_iteration calls.
C2_FixedNodeInvariance ==
    \A i \in 1..Len(nodes) :
        nodes[i].is_fixed_temp =>
            \A k \in 1..Len(nodes[i].temp) : nodes[i].temp[k] = nodes[i].temp[1]

\* the node whose value the mirror policy prescribes for the neighbour at
\* (nx, ny) of a node whose opposite neighbour is at (ox, oy)
MirrorSrc(nx, ny, ox, oy) == IF InGrid(nx, ny) THEN IdOf(nx, ny) ELSE IdOf(ox, oy)

\* C3: in a step on a mesh of size >= 2 every stencil operand of (x,y) is read
\* from the axis-aligned neighbour on that side, or from the opposite
\* neighbour when that side is off the grid, and from no other node.
C3_EdgeMirror ==
    mesh_size >= 2 =>
        \A i \in 1..Len(stencil) :
            LET x == nodes[i].x
                y == nodes[i].y
            IN  /\ stencil[i].left = MirrorSrc(x - 1, y, x + 1, y)
                /\ stencil[i].right = MirrorSrc(x + 1, y, x - 1, y)
                /\ stencil[i].top = MirrorSrc(x, y + 1, x, y - 1)
                /\ stencil[i].bottom = MirrorSrc(x, y - 1, x, y + 1)

\* C4: on a mesh of size >= 2, after init_values and k completed calls of
\* calc_time_iteration every node's history has exactly k + 1 entries, and
\* no such call fails.
C4_Lockstep ==
    mesh_size >= 2 =>
        /\ phase = "initialized" =>
               \A i \in 1..Len(nodes) : Len(nodes[i].temp) = steps + 1
        /\ call.op = "calc_time_iteration" => phase = "initialized"

C4_Witness ==
    /\ mesh_size >= 2
    /\ phase = "initialized"
    /\ steps >= 2
    /\ \E i \in 1..Len(nodes) : nodes[i].is_fixed_temp
    /\ \A i \in 1..Len(nodes) : Len(nodes[i].temp) = 3

\* the field of the scenario: 3 x 3, 0.0 everywhere but 100.0 fixed at (1,1)
ScenarioField ==
    /\ mesh_size = 3
    /\ \A i \in 1..Len(nodes) :
        /\ nodes[i].temp[1] = (IF nodes[i].id = 4 THEN 100000 ELSE 0)
        /\ nodes[i].is_fixed_temp = (nodes[i].id = 4)

\* C5: mesh_size 3, boundary condition (1,1,100.0), initial temperature 0.0,
\* tau 0.2: after one call of calc_time_iteration the four corners hold 0.0
\* at index 1.
C5_ScenarioCorners ==
    (Stepped /\ steps = 1 /\ call.tau = <<1, 5>> /\ ScenarioField) =>
        \A i \in 1..Len(nodes) :
            (nodes[i].x \in {0, 2} /\ nodes[i].y \in {0, 2}) => nodes[i].temp[2] = 0

\* C6: init_values raises when a boundary condition lies outside the grid,
\* and fixes no node other than those at the coordinates of its triples.
C6_OutOfRange ==
    call.op = "init_values" =>
        /\ (\E k \in 1..Len(call.bcs) : ~InGrid(call.bcs[k][1], call.bcs[k][2]))
               => err # "none"
        /\ \A i \in 1..Len(nodes) :
               nodes[i].is_fixed_temp =>
                   \E k \in 1..Len(call.bcs) :
                       call.bcs[k][1] = nodes[i].x /\ call.bcs[k][2] = nodes[i].y

\* C7: get_node_temp_or_none never raises and changes nothing; it returns
\* None when x * mesh_size + y is outside [0, mesh_size^2) or the node has no
\* history, and the node's latest entry otherwise.
C7_LookupTotal ==
    [][call'.op = "get_node_temp_or_none" =>
        /\ err' = "none"
        /\ nodes' = nodes /\ mesh_size' = mesh_size
        /\ LET id == call'.x * mesh_size + call'.y
           IN  IF id < 0 \/ id >= mesh_size * mesh_size
               THEN call'.result = NoneT
               ELSE /\ id + 1 \in DOMAIN nodes
                    /\ call'.result =
                           (IF nodes[id + 1].temp = <<>> THEN NoneT
                            ELSE SomeT(Last(nodes[id + 1].temp)))]_vars

\* the positions in the list of the boundary conditions given for node n
TriplesFor(n) ==
    {k \in 1..Len(call.bcs) : call.bcs[k][1] = n.x /\ call.bcs[k][2] = n.y}

SetMax(S) == CHOOSE m \in S : \A k \in S : k <= m

AllInRange == \A k \in 1..Len(call.bcs) : InGrid(call.bcs[k][1], call.bcs[k][2])

\* C8: init_values on a new mesh with every boundary condition inside the
\* grid returns normally and leaves each node with one entry: the temperature
\* of the last triple given for the node, and is_fixed_temp true, or
\* initial_temp, and is_fixed_temp false, when no triple names the node.
C8_InitValues ==
    (call.op = "init_values" /\ AllInRange) =>
        /\ err = "none"
        /\ \A i \in 1..Len(nodes) :
            /\ Len(nodes[i].temp) = 1
            /\ IF TriplesFor(nodes[i]) = {}
               THEN nodes[i].temp[1] = call.initial_temp /\ ~nodes[i].is_fixed_temp
               ELSE /\ nodes[i].temp[1] = call.bcs[SetMax(TriplesFor(nodes[i]))][3]
                    /\ nodes[i].is_fixed_temp

C8_Witness ==
    /\ call.op = "init_values" /\ AllInRange
    /\ mesh_size >= 2
    /\ Len(call.bcs) = 2
    /\ call.bcs[1][1] = call.bcs[2][1] /\ call.bcs[1][2] = call.bcs[2][2]
    /\ call.bcs[1][3] # call.bcs[2][3]
    /\ \E i \in 1..Len(nodes) :
           nodes[i].is_fixed_temp /\ nodes[i].temp = <<call.bcs[2][3]>>
    /\ \E i \in 1..Len(nodes) :
           ~nodes[i].is_fixed_temp /\ nodes[i].temp = <<call.initial_temp>>

\* C9: Mesh(mesh_size) with mesh_size <= 0 raises; construction never yields
\* a mesh without nodes.
C9_ConstructRejects ==
    /\ (call.op = "Mesh" /\ call.mesh_size <= 0) => err # "none"
    /\ (phase = "constructed" /\ err = "none") => Len(nodes) > 0

\* C10: a call of calc_time_iteration on an initialized mesh of size >= 2
\* keeps mesh_size, every node's id, coordinates and is_fixed_temp and every
\* recorded entry, and appends exactly one entry to every node.
C10_AppendOnly ==
    [][(call'.op = "calc_time_iteration" /\ mesh_size >= 2 /\ phase = "initialized") =>
        /\ mesh_size' = mesh_size
        /\ Len(nodes') = Len(nodes)
        /\ \A i \in 1..Len(nodes) :
            /\ nodes'[i].id = nodes[i].id
            /\ nodes'[i].x = nodes[i].x /\ nodes'[i].y = nodes[i].y
            /\ nodes'[i].is_fixed_temp = nodes[i].is_fixed_temp
            /\ Len(nodes'[i].temp) = Len(nodes[i].temp) + 1
            /\ SubSeq(nodes'[i].temp, 1, Len(nodes[i].temp)) = nodes[i].temp]_vars

C10_Witness ==
    /\ Stepped /\ mesh_size >= 2 /\ steps >= 2
    /\ \E i \in 1..Len(nodes) :
        /\ Len(nodes[i].temp) = 3
        /\ nodes[i].temp[3] # nodes[i].temp[2]
        /\ nodes[i].temp[2] # nodes[i].temp[1]

====
